---- MODULE Spec2Model ----
(***************************************************************************)
(* The real-models MCP server of mcp-hello-world (nodejs-real): the        *)
(* registry tables of shared/types.js, the provider adapters of            *)
(* shared/models.js and the tool-call handler of server/server.js.         *)
(*                                                                         *)
(* Representation of JavaScript values:                                    *)
(*   - a string the code applies string methods to (prompt, provider) is   *)
(*     [t |-> "string", v |-> <<characters>>]; a number in its place is    *)
(*     [t |-> "number", n |-> n];                                          *)
(*   - model names, task types and error types are atomic strings;         *)
(*   - an object is a record, a property that is undefined is a key that   *)
(*     is not in the record's DOMAIN;                                      *)
(*   - temperatures are in tenths (0.7 is 7);                              *)
(*   - a thrown or returned error message is a record [msg |-> the fixed   *)
(*     text of the template, ...the values interpolated into it].          *)
(***************************************************************************)
EXTENDS Integers, Sequences, FiniteSets, TLC

VARIABLES
    env,        \* process.env as read at startup: the set of variables that are set
    clients,    \* the adapter clients built by initializeClients()
    pc,         \* the handler's position: "idle", "awaiting", "done"
    request,    \* the tool call being handled: [name, args]
    taskType,   \* the handler's local taskType ("none" before classification)
    pending,    \* the network call the handler awaits (a sequence of 0 or 1 calls)
    elapsed,    \* ticks the pending call has been outstanding
    calls,      \* the network calls issued for the current request, in order
    settled,    \* how each of those calls settled, in order
    invoked,    \* the adapters entered for the current request, in order
    result,     \* the adapter's result, the handler's local `result` (<<>> if none)
    outcome,    \* what crossed the handler boundary: an envelope or a raised error
    handlers,   \* the invocations of the handler in flight at once, by slot: the
                \* position and the locals of each (used when requests overlap)
    hello,      \* the hello-world server (nodejs/server/server.js): its environment,
                \* its config, its position and the tool call it handles
    mcpClient,  \* an MCPClient / MCPTester with the server process it spawns: its
                \* fields, its timers, its promises and the pipes of the process
    helloClient \* a HelloWorldClient with the server process it spawns

vars == <<env, clients, pc, request, taskType, pending, elapsed, calls, settled,
          invoked, result, outcome, handlers, hello, mcpClient, helloClient>>

\* the position and the locals of the invocation followed step by step
single == <<pc, request, taskType, pending, elapsed, calls, settled, invoked,
            result, outcome>>

\* the server processes, which a step of a client leaves alone
servers == <<env, clients, single, handlers, hello>>

----------------------------------------------------------------------------
(* Bounds of the model *)

\* most fragments a prompt is concatenated from
MaxFrags == 2
\* largest token count a backend reports
MaxTok == 1
\* ticks of the request timeout (TIMEOUT_MS, in ticks)
TimeoutTicks == 2
\* ticks a call without a timeout is followed for
MaxElapsed == 3
\* invocations of the handler that may be in flight at once
MaxHandlers == 2
\* sendRequest calls a client makes
MaxRequests == 2
\* most tokens of the output stream one 'data' event carries
MaxChunk == 4

----------------------------------------------------------------------------
(* Strings *)

UpperAlphabet ==
    <<"A","B","C","D","E","F","G","H","I","J","K","L","M",
      "N","O","P","Q","R","S","T","U","V","W","X","Y","Z">>

LowerAlphabet ==
    <<"a","b","c","d","e","f","g","h","i","j","k","l","m",
      "n","o","p","q","r","s","t","u","v","w","x","y","z">>

\* the table that maps each character of from to the one at its place in to
CaseTable(from, to) ==
    [c \in {from[i] : i \in 1..Len(from)} |->
        to[CHOOSE i \in 1..Len(from) : from[i] = c]]

LowerTable == CaseTable(UpperAlphabet, LowerAlphabet)
UpperTable == CaseTable(LowerAlphabet, UpperAlphabet)

MapChar(c, table) == IF c \in DOMAIN table THEN table[c] ELSE c

\* String.prototype.toLowerCase on a character sequence
toLowerCase(s) == [i \in 1..Len(s) |-> MapChar(s[i], LowerTable)]

\* String.prototype.toUpperCase on a character sequence
toUpperCase(s) == [i \in 1..Len(s) |-> MapChar(s[i], UpperTable)]

\* String.prototype.includes: k occurs in s as a substring
includes(s, k) ==
    \E i \in 1..(Len(s) - Len(k) + 1) : SubSeq(s, i, i + Len(k) - 1) = k

Str(s) == [t |-> "string", v |-> s]
Num(n) == [t |-> "number", n |-> n]
IsString(x) == x.t = "string"

\* JavaScript truthiness of a value that is present
Truthy(x) == IF IsString(x) THEN x.v # <<>> ELSE x.n # 0

\* obj.k is defined
Has(obj, k) == k \in DOMAIN obj

----------------------------------------------------------------------------
(* shared/types.js *)

ollama == <<"o","l","l","a","m","a">>
claude == <<"c","l","a","u","d","e">>
openai == <<"o","p","e","n","a","i">>

MODEL_PROVIDERS ==
    (<<"O","L","L","A","M","A">> :> ollama) @@
    (<<"C","L","A","U","D","E">> :> claude) @@
    (<<"O","P","E","N","A","I">> :> openai)

AVAILABLE_MODELS ==
    (ollama :> <<"llama3.2", "llama3.1", "codellama", "mistral">>) @@
    (claude :> <<"claude-3-5-sonnet-20241022", "claude-3-haiku-20240307">>) @@
    (openai :> <<"gpt-4", "gpt-4-turbo", "gpt-3.5-turbo">>)

MODEL_ROUTING ==
    [creative |-> claude, analytical |-> openai, coding |-> ollama,
     general |-> ollama, default |-> ollama]

TASK_TYPES ==
    [CREATIVE |-> "creative", ANALYTICAL |-> "analytical",
     CODING |-> "coding", GENERAL |-> "general"]

\* DEFAULT_CONFIGS[provider].model
DefaultModel ==
    (ollama :> "llama3.2") @@ (claude :> "claude-3-5-sonnet-20241022") @@
    (openai :> "gpt-4")

\* DEFAULT_CONFIGS[provider].maxTokens
DefaultMaxTokens == 1000

\* DEFAULT_CONFIGS[provider].temperature, in tenths
DefaultTemperature == 7

ERROR_TYPES ==
    [INVALID_PROVIDER |-> "INVALID_PROVIDER", MODEL_UNAVAILABLE |-> "MODEL_UNAVAILABLE",
     API_ERROR |-> "API_ERROR", TIMEOUT |-> "TIMEOUT",
     INVALID_REQUEST |-> "INVALID_REQUEST"]

\* Array.prototype.includes on a list of model names
ListIncludes(list, m) == \E i \in 1..Len(list) : list[i] = m

Returns(v) == [throws |-> FALSE, value |-> v]
Throws(e) == [throws |-> TRUE, error |-> e]
TypeError(what) == [msg |-> "TypeError", what |-> what]

\* getProviderForModel(modelName): the first provider whose list has the
\* model, in the order of AVAILABLE_MODELS' keys; <<>> stands for null
getProviderForModel(modelName) ==
    IF ListIncludes(AVAILABLE_MODELS[ollama], modelName) THEN ollama
    ELSE IF ListIncludes(AVAILABLE_MODELS[claude], modelName) THEN claude
    ELSE IF ListIncludes(AVAILABLE_MODELS[openai], modelName) THEN openai
    ELSE <<>>

\* validateModelRequest without the test of the model against the provider's list
validateModelRequest_AnyModel(provider, args) ==
    IF ~IsString(provider)
    THEN Throws(TypeError("provider.toUpperCase is not a function"))
    ELSE IF ~Has(MODEL_PROVIDERS, toUpperCase(provider.v))
    THEN Returns([valid |-> FALSE,
                  error |-> [msg |-> "Invalid provider", provider |-> provider.v]])
    ELSE Returns([valid |-> TRUE])

\* validateModelRequest(provider, model); args holds model when it is defined
validateModelRequest(provider, args) ==
    IF ~IsString(provider)
    THEN Throws(TypeError("provider.toUpperCase is not a function"))
    ELSE IF ~Has(MODEL_PROVIDERS, toUpperCase(provider.v))
    THEN Returns([valid |-> FALSE,
                  error |-> [msg |-> "Invalid provider", provider |-> provider.v]])
    ELSE IF ~(Has(args, "model") /\ args.model # "")
    THEN Returns([valid |-> TRUE])
    ELSE IF ~Has(AVAILABLE_MODELS, provider.v)
    THEN Throws(TypeError("Cannot read properties of undefined (reading 'includes')"))
    ELSE IF ~ListIncludes(AVAILABLE_MODELS[provider.v], args.model)
    THEN Returns([valid |-> FALSE,
                  error |-> [msg |-> "Model not available for provider",
                             model |-> args.model, provider |-> provider.v]])
    ELSE Returns([valid |-> TRUE])

----------------------------------------------------------------------------
(* server/server.js: classification and selection *)

kw_code     == <<"c","o","d","e">>
kw_program  == <<"p","r","o","g","r","a","m">>
kw_function == <<"f","u","n","c","t","i","o","n">>
kw_creative == <<"c","r","e","a","t","i","v","e">>
kw_story    == <<"s","t","o","r","y">>
kw_poem     == <<"p","o","e","m">>
kw_analyze  == <<"a","n","a","l","y","z","e">>
kw_compare  == <<"c","o","m","p","a","r","e">>
kw_evaluate == <<"e","v","a","l","u","a","t","e">>

\* determineTaskType with the creative group tested before the coding group
determineTaskType_CreativeFirst(prompt) ==
    LET lowerPrompt == toLowerCase(prompt) IN
    IF includes(lowerPrompt, kw_creative) \/ includes(lowerPrompt, kw_story)
       \/ includes(lowerPrompt, kw_poem)
    THEN TASK_TYPES.CREATIVE
    ELSE IF includes(lowerPrompt, kw_code) \/ includes(lowerPrompt, kw_program)
            \/ includes(lowerPrompt, kw_function)
    THEN TASK_TYPES.CODING
    ELSE IF includes(lowerPrompt, kw_analyze) \/ includes(lowerPrompt, kw_compare)
            \/ includes(lowerPrompt, kw_evaluate)
    THEN TASK_TYPES.ANALYTICAL
    ELSE TASK_TYPES.GENERAL

\* determineTaskType matching the keywords against the prompt as it was typed
determineTaskType_CaseSensitive(prompt) ==
    IF includes(prompt, kw_code) \/ includes(prompt, kw_program)
       \/ includes(prompt, kw_function)
    THEN TASK_TYPES.CODING
    ELSE IF includes(prompt, kw_creative) \/ includes(prompt, kw_story)
            \/ includes(prompt, kw_poem)
    THEN TASK_TYPES.CREATIVE
    ELSE IF includes(prompt, kw_analyze) \/ includes(prompt, kw_compare)
            \/ includes(prompt, kw_evaluate)
    THEN TASK_TYPES.ANALYTICAL
    ELSE TASK_TYPES.GENERAL

\* determineTaskType(prompt), prompt a character sequence
determineTaskType(prompt) ==
    LET lowerPrompt == toLowerCase(prompt) IN
    IF includes(lowerPrompt, kw_code) \/ includes(lowerPrompt, kw_program)
       \/ includes(lowerPrompt, kw_function)
    THEN TASK_TYPES.CODING
    ELSE IF includes(lowerPrompt, kw_creative) \/ includes(lowerPrompt, kw_story)
            \/ includes(lowerPrompt, kw_poem)
    THEN TASK_TYPES.CREATIVE
    ELSE IF includes(lowerPrompt, kw_analyze) \/ includes(lowerPrompt, kw_compare)
            \/ includes(lowerPrompt, kw_evaluate)
    THEN TASK_TYPES.ANALYTICAL
    ELSE TASK_TYPES.GENERAL

\* selectModelForTask that ignores the routing table and returns the default
selectModelForTask_Default(tt, preferred) ==
    IF preferred # <<>> /\ preferred[1] # <<>>
       /\ Has(MODEL_PROVIDERS, toUpperCase(preferred[1]))
    THEN toLowerCase(preferred[1])
    ELSE MODEL_ROUTING.default

\* selectModelForTask(taskType, preferredProvider = null); preferred is a
\* sequence holding the preferred provider's characters when one is passed
selectModelForTask(tt, preferred) ==
    IF preferred # <<>> /\ preferred[1] # <<>>
       /\ Has(MODEL_PROVIDERS, toUpperCase(preferred[1]))
    THEN toLowerCase(preferred[1])
    ELSE IF Has(MODEL_ROUTING, tt) THEN MODEL_ROUTING[tt] ELSE MODEL_ROUTING.default

----------------------------------------------------------------------------
(* shared/models.js: clients and adapters *)

\* initializeClients that builds both clients whether or not their keys are set
initializeClients_Always(e) == [anthropicClient |-> TRUE, openaiClient |-> TRUE]

\* initializeClients(): a client exists for each API key that is set
initializeClients(e) ==
    [anthropicClient |-> "ANTHROPIC_API_KEY" \in e,
     openaiClient |-> "OPENAI_API_KEY" \in e]

\* a || b for an optional numeric property: obj.k if defined and non-zero
OrDefault(obj, k, dflt) == IF Has(obj, k) /\ obj[k] # 0 THEN obj[k] ELSE dflt

\* model || process.env.X_MODEL || DEFAULT_CONFIGS.x.model (X_MODEL is unset)
ModelName(args, provider) ==
    IF Has(args, "model") /\ args.model # "" THEN args.model ELSE DefaultModel[provider]

Return(v) == [kind |-> "return", value |-> v]
Await(c) == [kind |-> "await", call |-> c]
Throw(e) == [kind |-> "throw", error |-> e]

\* a step that ran inside the adapter of provider p
Entered(p, step) == step @@ [adapter |-> p]

\* error.message of the error a failed network call rejects with
ErrorMessage(code) ==
    [msg |-> CASE code = "ECONNREFUSED" -> "connect ECONNREFUSED"
               [] code = "ECONNABORTED" -> "timeout exceeded"
               [] OTHER -> "Request failed with status code 500"]

\* callOllama up to its await: the axios.post it issues
callOllamaBegin(prompt, args, options) ==
    Await([provider |-> ollama, op |-> "POST /api/generate",
           model |-> ModelName(args, ollama), prompt |-> prompt,
           temperature |-> OrDefault(options, "temperature", DefaultTemperature),
           num_predict |-> OrDefault(options, "maxTokens", DefaultMaxTokens),
           timeout |-> TimeoutTicks])

\* callOllama's return with every failure reported as API_ERROR
callOllamaEnd_ApiError(call, reply) ==
    IF reply.kind = "data"
    THEN LET p == OrDefault(reply.data, "prompt_eval_count", 0)
             c == OrDefault(reply.data, "eval_count", 0)
         IN  [success |-> TRUE, model |-> call.model, provider |-> ollama,
              usage |-> [prompt_tokens |-> p, completion_tokens |-> c,
                         total_tokens |-> p + c]]
             @@ (IF Has(reply.data, "response") THEN [content |-> reply.data.response]
                 ELSE <<>>)
    ELSE [success |-> FALSE,
          error |-> IF reply.kind = "error" THEN ErrorMessage(reply.code)
                    ELSE TypeError("Cannot read properties of null (reading 'response')"),
          errorType |-> ERROR_TYPES.API_ERROR, provider |-> ollama]

\* callOllama from the settled axios.post to its return
callOllamaEnd(call, reply) ==
    IF reply.kind = "error"
    THEN [success |-> FALSE, error |-> ErrorMessage(reply.code),
          errorType |-> IF reply.code = "ECONNREFUSED"
                        THEN ERROR_TYPES.MODEL_UNAVAILABLE ELSE ERROR_TYPES.API_ERROR,
          provider |-> ollama]
    ELSE IF reply.kind = "null"
    THEN [success |-> FALSE,
          error |-> TypeError("Cannot read properties of null (reading 'response')"),
          errorType |-> ERROR_TYPES.API_ERROR, provider |-> ollama]
    ELSE LET data == reply.data
             p == OrDefault(data, "prompt_eval_count", 0)
             c == OrDefault(data, "eval_count", 0)
         IN  [success |-> TRUE, model |-> call.model, provider |-> ollama,
              usage |-> [prompt_tokens |-> p, completion_tokens |-> c,
                         total_tokens |-> p + c]]
             @@ (IF Has(data, "response") THEN [content |-> data.response] ELSE <<>>)

\* callClaude up to its await: the missing-client return or messages.create
callClaudeBegin(cl, prompt, args, options) ==
    IF ~cl.anthropicClient
    THEN Return([success |-> FALSE, error |-> [msg |-> "Anthropic API key not configured"],
                 errorType |-> ERROR_TYPES.INVALID_REQUEST, provider |-> claude])
    ELSE Await([provider |-> claude, op |-> "messages.create",
                model |-> ModelName(args, claude), prompt |-> prompt,
                max_tokens |-> OrDefault(options, "maxTokens", DefaultMaxTokens),
                temperature |-> OrDefault(options, "temperature", DefaultTemperature)])

\* callClaude from the settled messages.create to its return
callClaudeEnd(call, reply) ==
    LET failure(m) == [success |-> FALSE, error |-> m,
                       errorType |-> ERROR_TYPES.API_ERROR, provider |-> claude]
    IN
    IF reply.kind = "error" THEN failure(ErrorMessage(reply.code))
    ELSE IF reply.kind = "null"
    THEN failure(TypeError("Cannot read properties of null (reading 'content')"))
    ELSE IF reply.data.content = <<>>
    THEN failure(TypeError("Cannot read properties of undefined (reading 'text')"))
    ELSE IF ~Has(reply.data, "usage")
    THEN failure(TypeError("Cannot read properties of undefined (reading 'input_tokens')"))
    ELSE LET block == reply.data.content[1]
             u == reply.data.usage
         IN  [success |-> TRUE, model |-> call.model, provider |-> claude,
              usage |-> [prompt_tokens |-> u.input_tokens,
                         completion_tokens |-> u.output_tokens,
                         total_tokens |-> u.input_tokens + u.output_tokens]]
             @@ (IF Has(block, "text") THEN [content |-> block.text] ELSE <<>>)

\* callOpenAI up to its await: the missing-client return or completions.create
callOpenAIBegin(cl, prompt, args, options) ==
    IF ~cl.openaiClient
    THEN Return([success |-> FALSE, error |-> [msg |-> "OpenAI API key not configured"],
                 errorType |-> ERROR_TYPES.INVALID_REQUEST, provider |-> openai])
    ELSE Await([provider |-> openai, op |-> "chat.completions.create",
                model |-> ModelName(args, openai), prompt |-> prompt,
                max_tokens |-> OrDefault(options, "maxTokens", DefaultMaxTokens),
                temperature |-> OrDefault(options, "temperature", DefaultTemperature)])

\* callOpenAI from the settled completions.create to its return
callOpenAIEnd(call, reply) ==
    LET failure(m) == [success |-> FALSE, error |-> m,
                       errorType |-> ERROR_TYPES.API_ERROR, provider |-> openai]
    IN
    IF reply.kind = "error" THEN failure(ErrorMessage(reply.code))
    ELSE IF reply.kind = "null"
    THEN failure(TypeError("Cannot read properties of null (reading 'choices')"))
    ELSE IF reply.data.choices = <<>>
    THEN failure(TypeError("Cannot read properties of undefined (reading 'message')"))
    ELSE IF ~Has(reply.data, "usage")
    THEN failure(TypeError("Cannot read properties of undefined (reading 'prompt_tokens')"))
    ELSE LET message == reply.data.choices[1].message
             u == reply.data.usage
         IN  [success |-> TRUE, model |-> call.model, provider |-> openai,
              usage |-> [prompt_tokens |-> u.prompt_tokens,
                         completion_tokens |-> u.completion_tokens,
                         total_tokens |-> u.total_tokens]]
             @@ (IF Has(message, "content") THEN [content |-> message.content] ELSE <<>>)

\* callModel(provider, prompt, model, options) up to the adapter's await
callModel(cl, provider, prompt, args, options) ==
    IF ~IsString(provider)
    THEN Throw(TypeError("provider.toLowerCase is not a function"))
    ELSE LET p == toLowerCase(provider.v) IN
         IF p = MODEL_PROVIDERS[<<"O","L","L","A","M","A">>]
         THEN Entered(ollama, callOllamaBegin(prompt, args, options))
         ELSE IF p = MODEL_PROVIDERS[<<"C","L","A","U","D","E">>]
         THEN Entered(claude, callClaudeBegin(cl, prompt, args, options))
         ELSE IF p = MODEL_PROVIDERS[<<"O","P","E","N","A","I">>]
         THEN Entered(openai, callOpenAIBegin(cl, prompt, args, options))
         ELSE Return([success |-> FALSE,
                      error |-> [msg |-> "Unknown provider", provider |-> provider.v],
                      errorType |-> ERROR_TYPES.INVALID_PROVIDER])

\* the adapter's return once its network call has settled
AdapterEnd(call, reply) ==
    IF call.provider = ollama THEN callOllamaEnd(call, reply)
    ELSE IF call.provider = claude THEN callClaudeEnd(call, reply)
    ELSE callOpenAIEnd(call, reply)

\* getAvailableModels reporting the provider as the caller typed it
getAvailableModelsBegin_AsTyped(provider) ==
    IF ~IsString(provider)
    THEN Throw(TypeError("provider.toLowerCase is not a function"))
    ELSE LET p == toLowerCase(provider.v) IN
         IF p = ollama
         THEN Await([provider |-> ollama, op |-> "GET /api/tags"])
         ELSE IF p \in {claude, openai}
         THEN Return([success |-> TRUE, models |-> AVAILABLE_MODELS[p],
                      provider |-> provider.v])
         ELSE Return([success |-> FALSE,
                      error |-> [msg |-> "Unknown provider", provider |-> provider.v]])

\* getAvailableModels(provider) up to its await
getAvailableModelsBegin(provider) ==
    IF ~IsString(provider)
    THEN Throw(TypeError("provider.toLowerCase is not a function"))
    ELSE LET p == toLowerCase(provider.v) IN
         IF p = ollama
         THEN Await([provider |-> ollama, op |-> "GET /api/tags"])
         ELSE IF p = claude
         THEN Return([success |-> TRUE,
                      models |-> <<"claude-3-5-sonnet-20241022", "claude-3-haiku-20240307">>,
                      provider |-> claude])
         ELSE IF p = openai
         THEN Return([success |-> TRUE,
                      models |-> <<"gpt-4", "gpt-4-turbo", "gpt-3.5-turbo">>,
                      provider |-> openai])
         ELSE Return([success |-> FALSE,
                      error |-> [msg |-> "Unknown provider", provider |-> provider.v]])

\* getAvailableModels answering for ollama with the registry's list
getAvailableModelsEnd_Registry(reply) ==
    IF reply.kind = "error"
    THEN [success |-> FALSE, error |-> ErrorMessage(reply.code), provider |-> ollama]
    ELSE [success |-> TRUE, models |-> AVAILABLE_MODELS[ollama], provider |-> ollama]

\* getAvailableModels from the settled axios.get to its return
getAvailableModelsEnd(reply) ==
    IF reply.kind = "error"
    THEN [success |-> FALSE, error |-> ErrorMessage(reply.code), provider |-> ollama]
    ELSE IF reply.kind = "null"
    THEN [success |-> FALSE,
          error |-> TypeError("Cannot read properties of null (reading 'models')"),
          provider |-> ollama]
    ELSE IF ~Has(reply.data, "models")
    THEN [success |-> FALSE,
          error |-> TypeError("Cannot read properties of undefined (reading 'map')"),
          provider |-> ollama]
    ELSE [success |-> TRUE,
          models |-> [i \in 1..Len(reply.data.models) |-> reply.data.models[i].name],
          provider |-> ollama]

----------------------------------------------------------------------------
(* server/server.js: the CallToolRequestSchema handler *)

\* new Date().toISOString()
Timestamp == "toISOString"

\* x is a defined, truthy property of args
Given(args, k) == Has(args, k) /\ Truthy(args[k])

\* the options object the chat case prepares
Options(args) == [k \in {"temperature", "maxTokens"} \cap DOMAIN args |-> args[k]]

\* the chat case reaches determineTaskType
Classifies(req) ==
    /\ req.name = "chat"
    /\ Has(req, "arguments")
    /\ Given(req.arguments, "prompt")
    /\ IsString(req.arguments.prompt)

\* the selection with the routing table consulted before the override
SelectedProvider_Routed(args, tt) ==
    IF Has(MODEL_ROUTING, tt) THEN Str(selectModelForTask(tt, <<>>))
    ELSE args.provider

\* a selection that, without a provider, takes the provider that owns the model
SelectedProvider_OwnerOfModel(args, tt) ==
    IF Given(args, "provider") THEN args.provider
    ELSE IF Has(args, "model") /\ getProviderForModel(args.model) # <<>>
    THEN Str(getProviderForModel(args.model))
    ELSE Str(selectModelForTask(tt, <<>>))

\* const selectedProvider = provider || selectModelForTask(taskType)
SelectedProvider(args, tt) ==
    IF Given(args, "provider") THEN args.provider ELSE Str(selectModelForTask(tt, <<>>))

\* case 'chat' without the test that rejects a missing or empty prompt
chatBegin_AnyPrompt(cl, req) ==
    IF ~Has(req, "arguments")
    THEN Throw(TypeError("Cannot destructure property 'prompt' of 'args'"))
    ELSE LET args == req.arguments IN
    IF ~Has(args, "prompt") \/ ~IsString(args.prompt)
    THEN Throw(TypeError("prompt.toLowerCase is not a function"))
    ELSE LET tt == determineTaskType(args.prompt.v)
             selectedProvider == SelectedProvider(args, tt)
             validation == validateModelRequest(selectedProvider, args)
         IN  IF validation.throws THEN Throw(validation.error)
             ELSE IF ~validation.value.valid THEN Throw(validation.value.error)
             ELSE callModel(cl, selectedProvider, args.prompt, args, Options(args))

\* case 'chat' from its entry to the await of callModel
chatBegin(cl, req) ==
    IF ~Has(req, "arguments")
    THEN Throw(TypeError("Cannot destructure property 'prompt' of 'args'"))
    ELSE LET args == req.arguments IN
    IF ~Given(args, "prompt")
    THEN Throw([msg |-> "Prompt is required"])
    ELSE IF ~IsString(args.prompt)
    THEN Throw(TypeError("prompt.toLowerCase is not a function"))
    ELSE LET tt == determineTaskType(args.prompt.v)
             selectedProvider == SelectedProvider(args, tt)
             validation == validateModelRequest(selectedProvider, args)
         IN  IF validation.throws THEN Throw(validation.error)
             ELSE IF ~validation.value.valid THEN Throw(validation.value.error)
             ELSE callModel(cl, selectedProvider, args.prompt, args, Options(args))

\* case 'chat' reporting every selection as automatic
chatEnd_AutoSelected(req, tt, res) ==
    IF ~res.success
    THEN Throw([msg |-> "API error", cause |-> res.error]
               @@ (IF Has(res, "provider") THEN [provider |-> res.provider] ELSE <<>>))
    ELSE Return([content |->
            [model_info |-> [provider |-> res.provider, model |-> res.model,
                             task_type |-> tt, auto_selected |-> TRUE],
             usage |-> res.usage,
             timestamp |-> Timestamp]
            @@ (IF Has(res, "content") THEN [response |-> res.content] ELSE <<>>)])

\* case 'chat' from the result of callModel to its return
chatEnd(req, tt, res) ==
    IF ~res.success
    THEN Throw([msg |-> "API error", cause |-> res.error]
               @@ (IF Has(res, "provider") THEN [provider |-> res.provider] ELSE <<>>))
    ELSE Return([content |->
            [model_info |-> [provider |-> res.provider, model |-> res.model,
                             task_type |-> tt,
                             auto_selected |-> ~Given(req.arguments, "provider")],
             usage |-> res.usage,
             timestamp |-> Timestamp]
            @@ (IF Has(res, "content") THEN [response |-> res.content] ELSE <<>>)])

\* case 'list_models' from its entry to the await of getAvailableModels
listBegin(req) ==
    IF ~Has(req, "arguments")
    THEN Throw(TypeError("Cannot destructure property 'provider' of 'args'"))
    ELSE IF ~Given(req.arguments, "provider")
    THEN Throw([msg |-> "Provider is required"])
    ELSE getAvailableModelsBegin(req.arguments.provider)

\* case 'list_models' from the result of getAvailableModels to its return
listEnd(req, res) ==
    IF ~res.success
    THEN Throw([msg |-> "Failed to get models", provider |-> req.arguments.provider,
                cause |-> res.error])
    ELSE Return([content |-> [provider |-> res.provider, models |-> res.models,
                              timestamp |-> Timestamp]])

\* a catch block that lets a TypeError through
Catch_RethrowsTypeError(name, step) ==
    IF step.kind = "throw" /\ step.error.msg # "TypeError"
    THEN Return([content |-> [error |-> step.error, tool |-> name,
                              timestamp |-> Timestamp],
                 isError |-> TRUE])
    ELSE step

\* the catch block: an error thrown in the switch becomes an error envelope
Catch(name, step) ==
    IF step.kind = "throw"
    THEN Return([content |-> [error |-> step.error, tool |-> name,
                              timestamp |-> Timestamp],
                 isError |-> TRUE])
    ELSE step

\* the switch from the handler's entry to its first await
SwitchBegin(cl, req) ==
    IF req.name = "chat" THEN chatBegin(cl, req)
    ELSE IF req.name = "list_models" THEN listBegin(req)
    ELSE Throw([msg |-> "Unknown tool", name |-> req.name])

\* the switch from the result of the awaited function to the case's return
SwitchEnd(req, tt, res) ==
    IF req.name = "chat" THEN chatEnd(req, tt, res) ELSE listEnd(req, res)

\* what leaves the handler for a step of its body: the envelope it returns,
\* or the error it raises
Leaves(step) ==
    IF step.kind = "throw" THEN [kind |-> "raised", error |-> step.error]
    ELSE [kind |-> "envelope", envelope |-> step.value]

----------------------------------------------------------------------------
(* nodejs/server/server.js: the hello-world server *)

\* HELLO_WORLD_SCENARIOS of nodejs/shared/types.js: the greeting styles
HELLO_WORLD_SCENARIOS ==
    [SIMPLE |-> "simple", FORMAL |-> "formal", CREATIVE |-> "creative",
     TECHNICAL |-> "technical"]

\* DEFAULT_ROUTING_RULES of nodejs/shared/types.js: the model of each style
DEFAULT_ROUTING_RULES ==
    [simple |-> "claude", formal |-> "openai", creative |-> "claude",
     technical |-> "llama"]

\* a || b for an optional string property: obj.k if defined and non-empty
OrElse(obj, k, dflt) == IF Has(obj, k) /\ obj[k] # "" THEN obj[k] ELSE dflt

\* new HelloWorldServer(): the config the constructor reads from process.env e
HelloWorldServer(e) ==
    [env |-> e,
     config |-> [defaultModel |-> OrElse(e, "DEFAULT_MODEL", "claude"),
                 enableModelRouting |->
                     ~(Has(e, "ENABLE_MODEL_ROUTING") /\ e.ENABLE_MODEL_ROUTING = "false"),
                 defaultStyle |-> OrElse(e, "DEFAULT_GREETING_STYLE", "simple")],
     pc |-> "idle"]

\* generateMessage(name, style): the template chosen and the name put into it
generateMessage(name, style) ==
    [template |-> IF style \in {HELLO_WORLD_SCENARIOS.FORMAL,
                                HELLO_WORLD_SCENARIOS.CREATIVE,
                                HELLO_WORLD_SCENARIOS.TECHNICAL}
                  THEN style ELSE HELLO_WORLD_SCENARIOS.SIMPLE,
     name |-> name]

\* handleHelloTool that lets the rule of the style win over the model argument
handleHelloTool_RoutedByStyle(cfg, args) ==
    LET name == IF Has(args, "name") THEN args.name ELSE "World"
        style == IF Has(args, "style") THEN args.style ELSE "simple"
        selectedModel ==
            IF Has(DEFAULT_ROUTING_RULES, style) THEN DEFAULT_ROUTING_RULES[style]
            ELSE OrElse(args, "model", "claude")
    IN  Return([content |->
            [message |-> generateMessage(name, style), style |-> style,
             model_used |-> selectedModel, timestamp |-> Timestamp,
             routing_applied |-> Has(DEFAULT_ROUTING_RULES, style)]])

\* handleHelloTool(args); cfg is this.config, which the method may read
handleHelloTool(cfg, args) ==
    LET name == IF Has(args, "name") THEN args.name ELSE "World"
        style == IF Has(args, "style") THEN args.style ELSE "simple"
        selectedModel ==
            IF Has(args, "model") /\ args.model # "" THEN args.model
            ELSE IF Has(DEFAULT_ROUTING_RULES, style) THEN DEFAULT_ROUTING_RULES[style]
            ELSE "claude"
    IN  Return([content |->
            [message |-> generateMessage(name, style), style |-> style,
             model_used |-> selectedModel, timestamp |-> Timestamp,
             routing_applied |-> ~(Has(args, "model") /\ args.model # "")]])

\* the CallToolRequestSchema handler of the hello-world server
HelloToolCall(cfg, req) ==
    IF req.name # "hello" THEN Throw([msg |-> "Unknown tool", name |-> req.name])
    ELSE IF ~Has(req, "arguments")
    THEN Throw(TypeError("Cannot destructure property 'name' of 'args'"))
    ELSE handleHelloTool(cfg, req.arguments)

----------------------------------------------------------------------------
(* Inputs: the tool calls a client sends and the answers of the backends *)

\* the ways property k of an object may be: undefined, or one of the values of S
Opt(k, S) == {<<>>} \cup {k :> v : v \in S}

Fragments ==
    { <<"c","o","d","e">>,
      <<"S","t","o","r","y"," ","p","o","e","m">>,
      <<"C","o","m","p","a","r","e">>,
      <<"h","i"," ">> }

\* the concatenations of at most n different fragments of fs, in any order
RECURSIVE Concats(_, _)
Concats(n, fs) ==
    IF n = 0 THEN {<<>>}
    ELSE {<<>>} \cup UNION {{f \o p : p \in Concats(n - 1, fs \ {f})} : f \in fs}

Prompts == Concats(MaxFrags, Fragments)

PromptValues == {Str(p) : p \in Prompts} \cup {Num(5)}

ProviderValues ==
    { Str(ollama), Str(claude), Str(openai),
      Str(<<"C","l","a","u","d","e">>), Str(<<"b","o","g","u","s">>),
      Str(<<>>), Num(1) }

ModelValues == {"llama3.2", "gpt-4", "qwen2"}

ChatArguments ==
    {p @@ v @@ m @@ t @@ n :
        p \in Opt("prompt", PromptValues), v \in Opt("provider", ProviderValues),
        m \in Opt("model", ModelValues), t \in Opt("temperature", {0, 3}),
        n \in Opt("maxTokens", {50})}

ListArguments == Opt("provider", ProviderValues)

Requests ==
    {[name |-> "chat", arguments |-> a] : a \in ChatArguments}
    \cup {[name |-> "list_models", arguments |-> a] : a \in ListArguments}
    \cup {[name |-> n] : n \in {"chat", "list_models"}}
    \cup {[name |-> "hello", arguments |-> <<>>]}

Text == "Hello!"

Faults == {[kind |-> "error", code |-> c] : c \in {"ECONNREFUSED", "ERR_BAD_RESPONSE"}}
          \cup {[kind |-> "null"]}

Data(S) == {[kind |-> "data", data |-> d] : d \in S}

\* the bodies a server may answer POST /api/generate with
OllamaBodies ==
    {r @@ p @@ e :
        r \in Opt("response", {Text}), p \in Opt("prompt_eval_count", 0..MaxTok),
        e \in Opt("eval_count", 0..MaxTok)}

\* the messages a server may answer messages.create with
ClaudeBodies ==
    {[content |-> c] @@ u :
        c \in {<<>>, <<[type |-> "text", text |-> Text]>>, <<[type |-> "tool_use"]>>},
        u \in Opt("usage", [input_tokens : 0..MaxTok, output_tokens : 0..MaxTok])}

\* the usage of a completion: the total is the sum of the parts, or is not
OpenAIUsages ==
    {u \in [prompt_tokens : 0..MaxTok, completion_tokens : 0..MaxTok,
            total_tokens : 0..(2 * MaxTok + 1)] :
        u.total_tokens - (u.prompt_tokens + u.completion_tokens) \in {0, 1}}

\* the completions a server may answer chat.completions.create with
OpenAIBodies ==
    {[choices |-> c] @@ u :
        c \in {<<>>, <<[message |-> [role |-> "assistant", content |-> Text]]>>,
                <<[message |-> [role |-> "assistant"]]>>},
        u \in Opt("usage", OpenAIUsages)}

\* the bodies a server may answer GET /api/tags with
TagsBodies ==
    Opt("models", {<<>>, <<[name |-> "llama3.2"]>>,
                   <<[name |-> "qwen2"], [name |-> "llama3.2"]>>})

\* the ways the awaited call may settle, apart from its timeout
Replies(call) ==
    Faults \cup
    Data(IF call.op = "POST /api/generate" THEN OllamaBodies
         ELSE IF call.op = "messages.create" THEN ClaudeBodies
         ELSE IF call.op = "chat.completions.create" THEN OpenAIBodies
         ELSE TagsBodies)

\* the environments the hello-world server is started in
HelloEnvs ==
    {r @@ d : r \in Opt("ENABLE_MODEL_ROUTING", {"true", "false"}),
              d \in Opt("DEFAULT_MODEL", {"openai", "llama"})}

\* the arguments of a hello tool call
HelloArguments ==
    {n @@ y @@ m :
        n \in Opt("name", {"Alice", ""}),
        y \in Opt("style", {"simple", "formal", "creative", "technical", "pirate"}),
        m \in Opt("model", {"llama", "gpt-4", ""})}

HelloRequests ==
    {[name |-> "hello", arguments |-> a] : a \in HelloArguments}
    \cup {[name |-> "hello"], [name |-> "chat", arguments |-> <<>>]}

----------------------------------------------------------------------------
(* The clients: MCPClient (client/client.js), MCPTester (tests/test-mcp.js), *)
(* HelloWorldClient (nodejs/client/client.js)                                *)

(* The server's output stream is a sequence of tokens. The line that answers *)
(* request id is two tokens, the halves of its JSON text, and a newline      *)
(* token; a 'data' event carries any number of tokens, so that a line may    *)
(* arrive whole, in pieces, or together with the next one.                   *)
Newline == [id |-> 0, half |-> 0, kind |-> "newline"]

\* what a response may hold: a result, an error with a message, an error without
ResponseKinds == {"result", "error", "bare error"}

\* JSON.stringify(response) + '\n' as the server's transport writes it
Line(id, kind) ==
    <<[id |-> id, half |-> 1, kind |-> kind], [id |-> id, half |-> 2, kind |-> kind], Newline>>

\* JSON.parse(text): the text parses when it is the two halves of one response
\* with nothing but white space around them, and throws otherwise
RECURSIVE TrimStart(_)
TrimStart(text) ==
    IF text # <<>> /\ Head(text) = Newline THEN TrimStart(Tail(text)) ELSE text

RECURSIVE TrimEnd(_)
TrimEnd(text) ==
    IF text # <<>> /\ text[Len(text)] = Newline
    THEN TrimEnd(SubSeq(text, 1, Len(text) - 1))
    ELSE text

JSONparse(text) ==
    LET t == TrimEnd(TrimStart(text)) IN
    IF Len(t) = 2 /\ t[1].half = 1 /\ t[2].half = 2 /\ t[1].id = t[2].id
    THEN Returns([id |-> t[1].id, kind |-> t[1].kind])
    ELSE Throws([msg |-> "SyntaxError"])

\* new MCPClient() / new MCPTester(), with what its connect() and sendRequest()
\* leave behind: the connect promise and its timer, the error event of a failed
\* spawn, the promises of sendRequest in the order of the calls, and the pipes
\* of the process (what was written to stdin, the requests not yet answered,
\* the output not yet read)
MCPClient ==
    [requestId |-> 1, serverProcess |-> "null", isConnected |-> FALSE,
     connecting |-> "none", timer |-> FALSE, errorEvent |-> FALSE,
     refused |-> 0, promises |-> <<>>, stdin |-> <<>>, unanswered |-> {},
     stdout |-> <<>>]

\* the promise sendRequest returns, with the listener it registers
Promise(id) ==
    [id |-> id, state |-> "pending", listening |-> TRUE, responseData |-> <<>>]

\* how a promise ends
Resolved(p, value) ==
    [id |-> p.id, state |-> "resolved", listening |-> FALSE,
     responseData |-> p.responseData, value |-> value]
Rejected(p, error) ==
    [id |-> p.id, state |-> "rejected", listening |-> FALSE,
     responseData |-> p.responseData, error |-> error]

\* the answer to a matched response: reject(new Error(response.error.message ||
\* 'Server error')) or resolve(response.result)
Settle(p, response) ==
    IF response.kind = "error"
    THEN Rejected(p, [msg |-> "error.message", of |-> response.id])
    ELSE IF response.kind = "bare error"
    THEN Rejected(p, [msg |-> "Server error", of |-> response.id])
    ELSE Resolved(p, [result |-> response.id])

\* the loop of onData over the lines of responseData taking any parsed response
RECURSIVE ScanLines_AnyId(_, _, _)
ScanLines_AnyId(p, data, line) ==
    IF data = <<>>
    THEN [id |-> p.id, state |-> p.state, listening |-> p.listening,
          responseData |-> line]
    ELSE IF Head(data) = Newline
    THEN LET parsed == JSONparse(line) IN
         IF line # <<>> /\ ~parsed.throws
         THEN Settle(p, parsed.value)
         ELSE ScanLines_AnyId(p, Tail(data), <<>>)
    ELSE ScanLines_AnyId(p, Tail(data), Append(line, Head(data)))

\* the loop of onData over the lines of responseData: each complete line is
\* parsed, the first response with the request's id settles the promise, and
\* the incomplete last line is kept
RECURSIVE ScanLines(_, _, _)
ScanLines(p, data, line) ==
    IF data = <<>>
    THEN [id |-> p.id, state |-> p.state, listening |-> p.listening,
          responseData |-> line]
    ELSE IF Head(data) = Newline
    THEN LET parsed == JSONparse(line) IN
         IF line # <<>> /\ ~parsed.throws /\ parsed.value.id = p.id
         THEN Settle(p, parsed.value)
         ELSE ScanLines(p, Tail(data), <<>>)
    ELSE ScanLines(p, Tail(data), Append(line, Head(data)))

\* onData(data) of MCPClient.sendRequest, for a registered listener
onData(p, data) == ScanLines(p, p.responseData \o data, <<>>)

\* new HelloWorldClient(), with the promises of its sendRequest and the pipes
\* of the process it spawns
HelloWorldClient ==
    [requestId |-> 1, serverProcess |-> "undefined", promises |-> <<>>,
     unanswered |-> {}, stdout |-> <<>>]

\* the promise HelloWorldClient.sendRequest returns, with its listener
HelloPromise(id) ==
    [id |-> id, state |-> "pending", listening |-> TRUE, response |-> <<>>]

\* onData(data) of HelloWorldClient.sendRequest: the whole of what was
\* collected is parsed, and what parses resolves the promise
helloOnData(p, data) ==
    LET response == p.response \o data
        parsed == JSONparse(response)
    IN  IF parsed.throws
        THEN [id |-> p.id, state |-> p.state, listening |-> p.listening,
              response |-> response]
        ELSE [id |-> p.id, state |-> "resolved", listening |-> FALSE,
              response |-> response, value |-> parsed.value]

----------------------------------------------------------------------------
(* The server process *)

Init ==
    /\ env \in SUBSET {"ANTHROPIC_API_KEY", "OPENAI_API_KEY"}
    /\ clients = initializeClients(env)
    /\ pc = "idle"
    /\ request = <<>>
    /\ taskType = "none"
    /\ pending = <<>>
    /\ elapsed = 0
    /\ calls = <<>>
    /\ settled = <<>>
    /\ invoked = <<>>
    /\ result = <<>>
    /\ outcome = <<>>
    /\ handlers = [i \in 1..MaxHandlers |-> [pc |-> "idle"]]
    /\ hello = HelloWorldServer(<<>>)
    /\ mcpClient = MCPClient
    /\ helloClient = HelloWorldClient

\* the handler runs from the arrival of a tool call to its first await, or to
\* its return when it awaits nothing
HandleToolCall(req) ==
    /\ pc = "idle"
    /\ LET step == SwitchBegin(clients, req)
           tt == IF Classifies(req) THEN determineTaskType(req.arguments.prompt.v)
                 ELSE "none"
       IN  /\ request' = req
           /\ taskType' = tt
           /\ invoked' = IF Has(step, "adapter") THEN <<step.adapter>> ELSE <<>>
           /\ elapsed' = 0
           /\ settled' = <<>>
           /\ IF step.kind = "await"
              THEN /\ pending' = <<step.call>>
                   /\ calls' = <<step.call>>
                   /\ result' = <<>>
                   /\ outcome' = <<>>
                   /\ pc' = "awaiting"
              ELSE /\ pending' = <<>>
                   /\ calls' = <<>>
                   /\ result' = IF step.kind = "return" THEN step.value ELSE <<>>
                   /\ outcome' = Leaves(Catch(req.name,
                                     IF step.kind = "return"
                                     THEN SwitchEnd(req, tt, step.value) ELSE step))
                   /\ pc' = "done"
    /\ UNCHANGED <<mcpClient, helloClient, hello, handlers, env, clients>>

\* what the function that issued call returns when the call settles with reply
Settled(call, reply) ==
    IF call.op = "GET /api/tags" THEN getAvailableModelsEnd(reply)
    ELSE AdapterEnd(call, reply)

\* a handler that issues the call a second time when it failed
Resume_Retries(reply) ==
    IF reply.kind = "error" /\ Len(calls) < 2
    THEN /\ settled' = Append(settled, reply)
         /\ calls' = Append(calls, pending[1])
         /\ elapsed' = 0
         /\ UNCHANGED <<mcpClient, helloClient, hello, handlers, env, clients, pc, request, taskType, pending, invoked,
                        result, outcome>>
    ELSE /\ settled' = Append(settled, reply)
         /\ result' = Settled(pending[1], reply)
         /\ outcome' = Leaves(Catch(request.name,
                           SwitchEnd(request, taskType, Settled(pending[1], reply))))
         /\ pending' = <<>>
         /\ elapsed' = 0
         /\ pc' = "done"
         /\ UNCHANGED <<mcpClient, helloClient, hello, handlers, env, clients, request, taskType, calls, invoked>>

\* the pending call settles with reply: the awaited function returns and the
\* handler runs to its return
Resume(reply) ==
    /\ settled' = Append(settled, reply)
    /\ result' = Settled(pending[1], reply)
    /\ outcome' = Leaves(Catch(request.name,
                      SwitchEnd(request, taskType, Settled(pending[1], reply))))
    /\ pending' = <<>>
    /\ elapsed' = 0
    /\ pc' = "done"
    /\ UNCHANGED <<mcpClient, helloClient, hello, handlers, env, clients, request, taskType, calls, invoked>>

\* the backend answers the pending call, or the call fails
BackendReplies(reply) ==
    /\ pc = "awaiting"
    /\ Has(pending[1], "timeout") => elapsed < pending[1].timeout
    /\ Resume(reply)

\* time passes while the call is pending
Tick ==
    /\ pc = "awaiting"
    /\ elapsed < MaxElapsed
    /\ Has(pending[1], "timeout") => elapsed < pending[1].timeout
    /\ elapsed' = elapsed + 1
    /\ UNCHANGED <<mcpClient, helloClient, hello, handlers, env, clients, pc, request, taskType, pending, calls, settled,
                   invoked, result, outcome>>

\* the timeout given to the pending call expires: axios rejects with ECONNABORTED
TimeoutExpires ==
    /\ pc = "awaiting"
    /\ Has(pending[1], "timeout")
    /\ elapsed = pending[1].timeout
    /\ Resume([kind |-> "error", code |-> "ECONNABORTED"])

\* the transport sends the outcome to the caller; the handler's locals are gone
Respond ==
    /\ pc = "done"
    /\ pc' = "idle"
    /\ request' = <<>>
    /\ taskType' = "none"
    /\ calls' = <<>>
    /\ settled' = <<>>
    /\ invoked' = <<>>
    /\ result' = <<>>
    /\ outcome' = <<>>
    /\ UNCHANGED <<mcpClient, helloClient, hello, handlers, env, clients, pending, elapsed>>

Next ==
    \/ pc = "idle" /\ \E req \in Requests : HandleToolCall(req)
    \/ \E call \in {pending[i] : i \in DOMAIN pending} :
          \E reply \in Replies(call) : BackendReplies(reply)
    \/ Tick
    \/ TimeoutExpires
    \/ Respond

Spec == Init /\ [][Next]_vars

TypeOK ==
    /\ pc \in {"idle", "awaiting", "done"}
    /\ (pc = "awaiting") = (pending # <<>>)
    /\ (pc = "done") = (outcome # <<>>)

----------------------------------------------------------------------------
(* Overlapping requests: the handler is async, so a second tool call may be  *)
(* handled while the first awaits its network call.  Each invocation has its *)
(* own locals; env and clients are the module-level state they all read.     *)

\* the tool calls sent while others are in flight
OverlapRequests ==
    { [name |-> "chat", arguments |-> [prompt |-> Str(<<"c","o","d","e">>)]],
      [name |-> "chat", arguments |->
          [prompt |-> Str(<<"S","t","o","r","y"," ","p","o","e","m">>)]],
      [name |-> "chat", arguments |->
          [prompt |-> Str(<<"S","t","o","r","y"," ","p","o","e","m">>),
           provider |-> Str(ollama)]],
      [name |-> "list_models", arguments |-> [provider |-> Str(ollama)]],
      [name |-> "list_models", arguments |-> [provider |-> Str(openai)]] }

\* the ways a call may settle while others are in flight: refused, or answered
OverlapReplies(call) ==
    {[kind |-> "error", code |-> "ECONNREFUSED"]} \cup
    Data(IF call.op = "POST /api/generate"
         THEN {[response |-> Text, prompt_eval_count |-> 1, eval_count |-> 1]}
         ELSE IF call.op = "messages.create"
         THEN {[content |-> <<[type |-> "text", text |-> Text]>>,
                usage |-> [input_tokens |-> 1, output_tokens |-> 1]]}
         ELSE IF call.op = "chat.completions.create"
         THEN {[choices |-> <<[message |-> [role |-> "assistant", content |-> Text]]>>,
                usage |-> [prompt_tokens |-> 1, completion_tokens |-> 1,
                           total_tokens |-> 2]]}
         ELSE {[models |-> <<[name |-> "llama3.2"]>>]})

\* the invocations other than i that await their network call
AwaitingBeside(i) == {j \in DOMAIN handlers \ {i} : handlers[j].pc = "awaiting"}

\* the locals of an invocation that ran from its entry to its first await, or
\* to its return; beside is the number of invocations in flight at that time
Begun(cl, req, beside) ==
    LET step == SwitchBegin(cl, req)
        tt == IF Classifies(req) THEN determineTaskType(req.arguments.prompt.v)
              ELSE "none"
    IN  IF step.kind = "await"
        THEN [pc |-> "awaiting", request |-> req, taskType |-> tt, call |-> step.call]
        ELSE [pc |-> "done", request |-> req, taskType |-> tt, beside |-> beside,
              outcome |-> Leaves(Catch(req.name,
                              IF step.kind = "return"
                              THEN SwitchEnd(req, tt, step.value) ELSE step))]

\* the locals of invocation h once its call has settled with reply
Ended(h, reply, beside) ==
    [pc |-> "done", request |-> h.request, taskType |-> h.taskType,
     call |-> h.call, reply |-> reply, beside |-> beside,
     outcome |-> Leaves(Catch(h.request.name,
                     SwitchEnd(h.request, h.taskType, Settled(h.call, reply))))]

\* an invocation that keeps the task type in a variable of the module, which
\* the invocations in flight share
Arrives_SharedTaskType(i, req) ==
    /\ handlers[i].pc = "idle"
    /\ LET h == Begun(clients, req, Cardinality(AwaitingBeside(i))) IN
       handlers' = [j \in DOMAIN handlers |->
                       IF j = i THEN h
                       ELSE IF handlers[j].pc = "awaiting" /\ Classifies(req)
                       THEN [handlers[j] EXCEPT !.taskType = h.taskType]
                       ELSE handlers[j]]
    /\ UNCHANGED <<env, clients, single, hello, mcpClient, helloClient>>

\* a tool call arrives and invocation i handles it up to its first await
Arrives(i, req) ==
    /\ handlers[i].pc = "idle"
    /\ handlers' = [handlers EXCEPT
                        ![i] = Begun(clients, req, Cardinality(AwaitingBeside(i)))]
    /\ UNCHANGED <<env, clients, single, hello, mcpClient, helloClient>>

\* the call invocation i awaits settles, in whatever order the backends answer
Answers(i, reply) ==
    /\ handlers[i].pc = "awaiting"
    /\ handlers' = [handlers EXCEPT
                        ![i] = Ended(handlers[i], reply, Cardinality(AwaitingBeside(i)))]
    /\ UNCHANGED <<env, clients, single, hello, mcpClient, helloClient>>

\* the transport sends the outcome of invocation i
Sends(i) ==
    /\ handlers[i].pc = "done"
    /\ handlers' = [handlers EXCEPT ![i] = [pc |-> "idle"]]
    /\ UNCHANGED <<env, clients, single, hello, mcpClient, helloClient>>

OverlapNext ==
    \E i \in 1..MaxHandlers :
        \/ \E req \in OverlapRequests : Arrives(i, req)
        \/ /\ handlers[i].pc = "awaiting"
           /\ \E reply \in OverlapReplies(handlers[i].call) : Answers(i, reply)
        \/ Sends(i)

OverlapSpec == Init /\ [][OverlapNext]_vars

----------------------------------------------------------------------------
(* The hello-world server process *)

\* the hello-world server is started in one of its environments; the
\* real-models server is not running
HelloInit ==
    /\ hello \in {HelloWorldServer(e) : e \in HelloEnvs}
    /\ env = {}
    /\ clients = initializeClients(env)
    /\ pc = "idle"
    /\ request = <<>>
    /\ taskType = "none"
    /\ pending = <<>>
    /\ elapsed = 0
    /\ calls = <<>>
    /\ settled = <<>>
    /\ invoked = <<>>
    /\ result = <<>>
    /\ outcome = <<>>
    /\ handlers = [i \in 1..MaxHandlers |-> [pc |-> "idle"]]
    /\ mcpClient = MCPClient
    /\ helloClient = HelloWorldClient

\* a tool call arrives and the handler runs to its end (it awaits nothing)
HelloArrives(req) ==
    /\ hello.pc = "idle"
    /\ hello' = [env |-> hello.env, config |-> hello.config, pc |-> "done",
                 request |-> req,
                 outcome |-> Leaves(HelloToolCall(hello.config, req))]
    /\ UNCHANGED <<env, clients, single, handlers, mcpClient, helloClient>>

\* the transport sends the outcome
HelloSends ==
    /\ hello.pc = "done"
    /\ hello' = [env |-> hello.env, config |-> hello.config, pc |-> "idle"]
    /\ UNCHANGED <<env, clients, single, handlers, mcpClient, helloClient>>

HelloNext ==
    \/ \E req \in HelloRequests : HelloArrives(req)
    \/ HelloSends

HelloSpec == HelloInit /\ [][HelloNext]_vars

----------------------------------------------------------------------------
(* An MCPClient (or MCPTester) and the server process it spawns *)

\* a client has been constructed and no server process is running yet
ClientInit ==
    /\ mcpClient = MCPClient
    /\ helloClient = HelloWorldClient
    /\ hello = HelloWorldServer(<<>>)
    /\ env = {}
    /\ clients = initializeClients(env)
    /\ pc = "idle"
    /\ request = <<>>
    /\ taskType = "none"
    /\ pending = <<>>
    /\ elapsed = 0
    /\ calls = <<>>
    /\ settled = <<>>
    /\ invoked = <<>>
    /\ result = <<>>
    /\ outcome = <<>>
    /\ handlers = [i \in 1..MaxHandlers |-> [pc |-> "idle"]]

\* mcpClient with some of its fields replaced
With(c, changes) == [k \in DOMAIN c |-> IF k \in DOMAIN changes THEN changes[k] ELSE c[k]]

\* connect(): spawns the server, which starts or fails to start, registers the
\* error listener and arms the one-second timer. A client connects once.
connect(alive) ==
    /\ mcpClient.serverProcess = "null"
    /\ mcpClient' = With(mcpClient,
           [serverProcess |-> IF alive THEN "alive" ELSE "failed",
            errorEvent |-> ~alive, connecting |-> "pending", timer |-> TRUE])
    /\ UNCHANGED <<servers, helloClient>>

\* serverProcess.on('error', ...): the failed spawn is reported and connect()
\* rejects
SpawnError ==
    /\ mcpClient.errorEvent
    /\ mcpClient' = With(mcpClient, [errorEvent |-> FALSE, connecting |-> "rejected"])
    /\ UNCHANGED <<servers, helloClient>>

\* the one-second timer of connect() fires, after the error event of a failed
\* spawn if there is one: isConnected = true; resolve()
ConnectTimer ==
    /\ mcpClient.timer
    /\ ~mcpClient.errorEvent
    /\ mcpClient' = With(mcpClient,
           [timer |-> FALSE, isConnected |-> TRUE,
            connecting |-> IF mcpClient.connecting = "pending" THEN "resolved"
                           ELSE mcpClient.connecting])
    /\ UNCHANGED <<servers, helloClient>>

\* sendRequest(): throws 'Client not connected to server' unless isConnected;
\* otherwise takes the next id, registers its listener, writes the request to
\* the process's stdin and arms its timeout. A process that is not running
\* reads nothing.
sendRequest ==
    /\ Len(mcpClient.promises) + mcpClient.refused < MaxRequests
    /\ IF ~mcpClient.isConnected
       THEN mcpClient' = With(mcpClient, [refused |-> mcpClient.refused + 1])
       ELSE mcpClient' = With(mcpClient,
                [requestId |-> mcpClient.requestId + 1,
                 promises |-> Append(mcpClient.promises, Promise(mcpClient.requestId)),
                 stdin |-> Append(mcpClient.stdin,
                                  [id |-> mcpClient.requestId, to |-> mcpClient.serverProcess]),
                 unanswered |-> IF mcpClient.serverProcess = "alive"
                                THEN mcpClient.unanswered \cup {mcpClient.requestId}
                                ELSE mcpClient.unanswered])
    /\ UNCHANGED <<servers, helloClient>>

\* the server answers one of the requests it has read, in any order
ServerResponds(id, kind) ==
    /\ mcpClient.serverProcess = "alive"
    /\ id \in mcpClient.unanswered
    /\ mcpClient' = With(mcpClient,
           [unanswered |-> mcpClient.unanswered \ {id},
            stdout |-> mcpClient.stdout \o Line(id, kind)])
    /\ UNCHANGED <<servers, helloClient>>

\* a 'data' event of stdout with the next n tokens: every registered listener
\* runs its onData
StdoutData(n) ==
    /\ n <= Len(mcpClient.stdout)
    /\ LET data == SubSeq(mcpClient.stdout, 1, n) IN
       mcpClient' = With(mcpClient,
           [stdout |-> SubSeq(mcpClient.stdout, n + 1, Len(mcpClient.stdout)),
            promises |-> [i \in 1..Len(mcpClient.promises) |->
                            IF mcpClient.promises[i].listening
                            THEN onData(mcpClient.promises[i], data)
                            ELSE mcpClient.promises[i]]])
    /\ UNCHANGED <<servers, helloClient>>

\* the 30-second timer of a request fires: its listener is removed and its
\* promise, if still pending, rejects
RequestTimeout(i) ==
    /\ i \in 1..Len(mcpClient.promises)
    /\ mcpClient.promises[i].state = "pending"
    /\ mcpClient' = With(mcpClient,
           [promises |-> [mcpClient.promises EXCEPT
                            ![i] = Rejected(@, [msg |-> "Request timeout"])]])
    /\ UNCHANGED <<servers, helloClient>>

\* disconnect(): if (serverProcess) { serverProcess.kill(); isConnected = false }
disconnect ==
    /\ mcpClient.serverProcess # "null"
    /\ mcpClient.serverProcess # "killed"
    /\ mcpClient' = With(mcpClient,
           [serverProcess |-> IF mcpClient.serverProcess = "alive" THEN "killed"
                              ELSE mcpClient.serverProcess,
            isConnected |-> FALSE])
    /\ UNCHANGED <<servers, helloClient>>

ClientNext ==
    \/ \E alive \in BOOLEAN : connect(alive)
    \/ SpawnError
    \/ ConnectTimer
    \/ sendRequest
    \/ \E id \in 1..MaxRequests, kind \in ResponseKinds : ServerResponds(id, kind)
    \/ \E n \in 1..MaxChunk : StdoutData(n)
    \/ \E i \in 1..MaxRequests : RequestTimeout(i)
    \/ disconnect

ClientSpec == ClientInit /\ [][ClientNext]_vars

----------------------------------------------------------------------------
(* A HelloWorldClient and the server process it spawns *)

\* connect(): spawns the server and returns it at once
helloConnect ==
    /\ helloClient.serverProcess = "undefined"
    /\ helloClient' = With(helloClient, [serverProcess |-> "alive"])
    /\ UNCHANGED <<servers, mcpClient>>

\* sendRequest(): takes the next id, registers its listener and writes the
\* request to the process's stdin
helloSendRequest ==
    /\ helloClient.serverProcess = "alive"
    /\ Len(helloClient.promises) < MaxRequests
    /\ helloClient' = With(helloClient,
           [requestId |-> helloClient.requestId + 1,
            promises |-> Append(helloClient.promises, HelloPromise(helloClient.requestId)),
            unanswered |-> helloClient.unanswered \cup {helloClient.requestId}])
    /\ UNCHANGED <<servers, mcpClient>>

\* the server answers one of the requests it has read
HelloServerResponds(id, kind) ==
    /\ id \in helloClient.unanswered
    /\ helloClient' = With(helloClient,
           [unanswered |-> helloClient.unanswered \ {id},
            stdout |-> helloClient.stdout \o Line(id, kind)])
    /\ UNCHANGED <<servers, mcpClient>>

\* a 'data' event of stdout with the next n tokens
HelloStdoutData(n) ==
    /\ n <= Len(helloClient.stdout)
    /\ LET data == SubSeq(helloClient.stdout, 1, n) IN
       helloClient' = With(helloClient,
           [stdout |-> SubSeq(helloClient.stdout, n + 1, Len(helloClient.stdout)),
            promises |-> [i \in 1..Len(helloClient.promises) |->
                            IF helloClient.promises[i].listening
                            THEN helloOnData(helloClient.promises[i], data)
                            ELSE helloClient.promises[i]]])
    /\ UNCHANGED <<servers, mcpClient>>

HelloClientNext ==
    \/ helloConnect
    \/ helloSendRequest
    \/ \E id \in 1..MaxRequests, kind \in ResponseKinds : HelloServerResponds(id, kind)
    \/ \E n \in 1..MaxChunk : HelloStdoutData(n)

HelloClientSpec == ClientInit /\ [][HelloClientNext]_vars


----------------------------------------------------------------------------
(* Properties *)

Args == request.arguments
Envelope == outcome.envelope
Body == outcome.envelope.content

KnownProviders == {ollama, claude, openai}

\* a chat request with a non-empty prompt is being handled or has been handled
ChatWithPrompt ==
    /\ pc # "idle"
    /\ request.name = "chat"
    /\ Has(request, "arguments")
    /\ Given(Args, "prompt")
    /\ IsString(Args.prompt)

\* the handler has returned an error envelope
ErrorEnvelope ==
    /\ pc = "done"
    /\ outcome.kind = "envelope"
    /\ Has(Envelope, "isError")

\* ... whose provider override is a known provider, its model override absent
\* or one of that provider's models
ValidOverride ==
    /\ ChatWithPrompt
    /\ Has(Args, "provider")
    /\ IsString(Args.provider)
    /\ Args.provider.v \in KnownProviders
    /\ Has(Args, "model") =>
          ListIncludes(AVAILABLE_MODELS[Args.provider.v], Args.model)

\* C1: with a valid provider override the adapter entered, the provider every
\* network call goes to and the provider of the adapter's result are the
\* override, whatever the task type; the success envelope reports the override
\* with auto_selected false, and the error envelope names the override.
C1_OverrideDeterminesProvider ==
    ValidOverride =>
        /\ invoked = <<Args.provider.v>>
        /\ \A i \in DOMAIN calls : calls[i].provider = Args.provider.v
        /\ pc = "done" =>
              /\ outcome.kind = "envelope"
              /\ result.provider = Args.provider.v
              /\ IF result.success
                 THEN /\ Body.model_info.provider = Args.provider.v
                      /\ Body.model_info.auto_selected = FALSE
                 ELSE Body.error.provider = Args.provider.v

\* an override of ollama served a prompt that routing would send to claude
C1_Witness ==
    /\ ValidOverride
    /\ pc = "done"
    /\ taskType = "creative"
    /\ Args.provider.v = ollama
    /\ result.success
    /\ Body.model_info.provider = ollama

\* the routing table as the claim states it
RoutedProvider(tt) ==
    CASE tt = "creative" -> claude
      [] tt = "analytical" -> openai
      [] tt = "coding" -> ollama
      [] tt = "general" -> ollama

\* C2: without a provider override the provider chosen is the routing table's
\* entry for the prompt's task type: it is the only adapter entered (none is
\* entered exactly when a model override is not one of its models), every
\* network call goes to it, and the success envelope reports it, the task type
\* and auto_selected true.
C2_RoutingTableDecides ==
    (ChatWithPrompt /\ ~Given(Args, "provider")) =>
        /\ taskType \in {"creative", "analytical", "coding", "general"}
        /\ LET routed == RoutedProvider(taskType) IN
           /\ invoked \in {<<>>, <<routed>>}
           /\ (invoked = <<>>) <=>
                 (Has(Args, "model") /\ ~ListIncludes(AVAILABLE_MODELS[routed], Args.model))
           /\ \A i \in DOMAIN calls : calls[i].provider = routed
           /\ (pc = "done" /\ invoked # <<>>) =>
                 /\ result.provider = routed
                 /\ result.success =>
                       /\ Body.model_info.provider = routed
                       /\ Body.model_info.task_type = taskType
                       /\ Body.model_info.auto_selected = TRUE

\* a creative prompt without override was served by claude
C2_Witness ==
    /\ ChatWithPrompt
    /\ ~Has(Args, "provider")
    /\ pc = "done"
    /\ includes(toLowerCase(Args.prompt.v), kw_story)
    /\ ~includes(toLowerCase(Args.prompt.v), kw_code)
    /\ result # <<>>
    /\ result.success
    /\ Body.model_info = [provider |-> claude, model |-> "claude-3-5-sonnet-20241022",
                          task_type |-> "creative", auto_selected |-> TRUE]

\* the keyword groups in their priority order
KeywordGroups ==
    << [type |-> "coding", keywords |-> {kw_code, kw_program, kw_function}],
       [type |-> "creative", keywords |-> {kw_creative, kw_story, kw_poem}],
       [type |-> "analytical", keywords |-> {kw_analyze, kw_compare, kw_evaluate}] >>

\* the lower-cased prompt lp contains a keyword of the group
GroupMatches(lp, g) == \E k \in g.keywords : includes(lp, k)

\* the number of keywords of the group the lower-cased prompt lp contains
GroupCount(lp, g) == Cardinality({k \in g.keywords : includes(lp, k)})

\* the type of the first group in priority order that matches, else general
FirstMatch(p) ==
    LET lp == toLowerCase(p)
        hits == {i \in DOMAIN KeywordGroups : GroupMatches(lp, KeywordGroups[i])}
    IN  IF hits = {} THEN "general"
        ELSE KeywordGroups[CHOOSE i \in hits : \A j \in hits : i <= j].type

\* C3: the task type of a prompt is the type of the first keyword group, in the
\* order coding, creative, analytical, with a keyword that is a substring of
\* the lower-cased prompt, and general when no group has one; the number of
\* keywords matched in each group plays no part.
C3_FirstMatchingGroupWins ==
    ChatWithPrompt => taskType = FirstMatch(Args.prompt.v)

\* a prompt with two creative keywords and one coding keyword is coding
C3_Witness ==
    /\ ChatWithPrompt
    /\ GroupCount(toLowerCase(Args.prompt.v), KeywordGroups[1]) = 1
    /\ GroupCount(toLowerCase(Args.prompt.v), KeywordGroups[2]) = 2
    /\ taskType = "coding"

\* C4: a provider override that is not ollama, claude or openai yields an
\* Invalid-provider failure for every prompt and enters no adapter.
C4_UnknownProviderRejected ==
    (/\ ChatWithPrompt
     /\ Given(Args, "provider")
     /\ IsString(Args.provider)
     /\ Args.provider.v \notin KnownProviders) =>
        /\ invoked = <<>>
        /\ calls = <<>>
        /\ ErrorEnvelope
        /\ Body.error.msg = "Invalid provider"

\* the envelope every return of the handler has: a body with a timestamp,
\* and either isError with the error and the tool's name or neither
WellFormed(e, name) ==
    /\ DOMAIN e \in {{"content"}, {"content", "isError"}}
    /\ Has(e.content, "timestamp")
    /\ IF Has(e, "isError")
       THEN /\ e.isError
            /\ DOMAIN e.content = {"error", "tool", "timestamp"}
            /\ e.content.tool = name
            /\ Has(e.content.error, "msg")
       ELSE ~Has(e.content, "error")

\* C5: whatever the tool name, the arguments and the way the backend call
\* settled, the handler ends by returning a well-formed envelope: no error
\* is raised to the caller.
C5_HandlerNeverRaises ==
    pc = "done" => /\ outcome.kind = "envelope"
                   /\ WellFormed(outcome.envelope, request.name)

\* a TypeError thrown inside the handler came back as an error envelope
C5_Witness ==
    /\ ErrorEnvelope
    /\ Body.error.msg = "TypeError"
    /\ request.name = "chat"

\* C6: in every adapter result and every chat envelope, failure and the
\* presence of error coincide, a failure carries neither content nor usage,
\* and a success carries content and no error.
C6_SuccessIffNoError ==
    (pc = "done" /\ request.name = "chat" /\ result # <<>>) =>
        /\ (~result.success) <=> Has(result, "error")
        /\ (~result.success) => (~Has(result, "content") /\ ~Has(result, "usage"))
        /\ result.success => Has(result, "content")
        /\ outcome.kind = "envelope"
        /\ Has(Envelope, "isError") <=> Has(Body, "error")
        /\ Has(Envelope, "isError") => (~Has(Body, "response") /\ ~Has(Body, "usage"))
        /\ (~Has(Envelope, "isError")) => Has(Body, "response")

\* C7: in every successful adapter result total_tokens is the sum of
\* prompt_tokens and completion_tokens, and neither part is negative.
C7_TotalIsSum ==
    (pc = "done" /\ request.name = "chat" /\ result # <<>> /\ result.success) =>
        /\ result.usage.total_tokens =
              result.usage.prompt_tokens + result.usage.completion_tokens
        /\ result.usage.prompt_tokens >= 0
        /\ result.usage.completion_tokens >= 0

\* the call of a chat request to ollama was refused
OllamaRefused ==
    /\ pc = "done"
    /\ request.name = "chat"
    /\ calls # <<>>
    /\ calls[1].provider = ollama
    /\ settled[1] = [kind |-> "error", code |-> "ECONNREFUSED"]

\* C8: when the connection to ollama is refused the adapter returns a failure
\* of type MODEL_UNAVAILABLE (the unreachable-backend kind) and the handler
\* returns the error envelope that carries it: nothing is raised.
C8_RefusedIsUnavailable ==
    OllamaRefused =>
        /\ result.success = FALSE
        /\ result.errorType = "MODEL_UNAVAILABLE"
        /\ result.provider = ollama
        /\ ErrorEnvelope
        /\ Body.error = [msg |-> "API error", provider |-> ollama,
                         cause |-> [msg |-> "connect ECONNREFUSED"]]

C8_Witness == OllamaRefused /\ ~Has(Args, "provider") /\ taskType = "general"

\* the API key a cloud provider's client is built from
KeyOf(p) == IF p = claude THEN "ANTHROPIC_API_KEY" ELSE "OPENAI_API_KEY"

\* the error text of the adapter of p when its client is missing
NotConfigured(p) ==
    IF p = claude THEN "Anthropic API key not configured"
    ELSE "OpenAI API key not configured"

\* a chat request reached the adapter of cloud provider p, whose key is not set
ServedWithoutKey(p) ==
    /\ pc # "idle"
    /\ request.name = "chat"
    /\ invoked = <<p>>
    /\ KeyOf(p) \notin env

C10_EveryCallTimesOut ==
    /\ pc = "awaiting" => elapsed <= TimeoutTicks
    /\ (pc = "done" /\ settled # <<>>
        /\ settled[1] = [kind |-> "error", code |-> "ECONNABORTED"]) =>
          /\ Len(calls) = 1
          /\ result.success = FALSE
          /\ result.errorType = "TIMEOUT"

\* a chat request with a prompt overrides the provider with a known one and
\* the model with one that is not in that provider's list
UnlistedModel ==
    /\ ChatWithPrompt
    /\ Has(Args, "provider")
    /\ IsString(Args.provider)
    /\ Args.provider.v \in KnownProviders
    /\ Has(Args, "model")
    /\ ~ListIncludes(AVAILABLE_MODELS[Args.provider.v], Args.model)

\* C11: a chat request that overrides the provider and names a model that is
\* not in that provider's list ends at once in an error envelope saying that
\* the model is not available for the provider; no adapter is entered and no
\* network call is made.
C11_UnlistedModelRejected ==
    UnlistedModel =>
        /\ pc = "done"
        /\ invoked = <<>>
        /\ calls = <<>>
        /\ result = <<>>
        /\ ErrorEnvelope
        /\ Body.error = [msg |-> "Model not available for provider",
                         model |-> Args.model, provider |-> Args.provider.v]

\* ollama was asked for a model of openai
C11_Witness ==
    /\ UnlistedModel
    /\ Args.provider.v = ollama
    /\ Args.model = "gpt-4"
    /\ ErrorEnvelope

\* a chat request whose prompt is missing or empty
WithoutPrompt ==
    /\ pc # "idle"
    /\ request.name = "chat"
    /\ Has(request, "arguments") =>
          (~Has(Args, "prompt") \/ Args.prompt = Str(<<>>))

\* C12: a chat request whose prompt is missing or empty ends at once in an
\* error envelope, whatever its other arguments: the prompt is not
\* classified, no adapter is entered and no network call is made; when the
\* request has an arguments object the error is 'Prompt is required'.
C12_EmptyPromptRejected ==
    WithoutPrompt =>
        /\ pc = "done"
        /\ taskType = "none"
        /\ invoked = <<>>
        /\ calls = <<>>
        /\ result = <<>>
        /\ ErrorEnvelope
        /\ Body.tool = "chat"
        /\ Has(request, "arguments") => Body.error = [msg |-> "Prompt is required"]

\* an empty prompt was rejected although provider, model and options are valid
C12_Witness ==
    /\ WithoutPrompt
    /\ Has(request, "arguments")
    /\ Has(Args, "prompt")
    /\ Has(Args, "provider") /\ Args.provider = Str(claude)
    /\ DOMAIN Args = {"prompt", "provider", "model", "temperature", "maxTokens"}
    /\ ErrorEnvelope

\* the adapter of a chat request returned a failure
ChatFailed ==
    /\ pc = "done"
    /\ request.name = "chat"
    /\ result # <<>>
    /\ ~result.success

C14_FallsBackOnMissingKey ==
    \A p \in {claude, openai} :
        (ServedWithoutKey(p) /\ pc = "done") =>
            /\ calls # <<>>
            /\ calls[1].provider # p
            /\ ~(ErrorEnvelope /\ Body.error.cause = [msg |-> NotConfigured(p)])

\* a list_models request for one of the three providers has been answered;
\* for ollama, the server answered GET /api/tags with a body that has a models
\* array
ListAnswered ==
    /\ pc = "done"
    /\ request.name = "list_models"
    /\ Has(request, "arguments")
    /\ Has(Args, "provider")
    /\ IsString(Args.provider)
    /\ Args.provider.v \in KnownProviders
    /\ Args.provider.v = ollama =>
          /\ settled # <<>>
          /\ settled[1].kind = "data"
          /\ Has(settled[1].data, "models")

\* the name of each entry of a /api/tags listing, in order
Names(ms) == [i \in 1..Len(ms) |-> ms[i].name]

\* C15 as stated: list_models for ollama, claude or openai returns a success
\* envelope whose models is a non-empty sequence, whatever the ollama server
\* answered the listing request with.
C15_ListIsNonEmpty ==
    ListAnswered =>
        /\ outcome.kind = "envelope"
        /\ ~Has(Envelope, "isError")
        /\ Body.provider = Args.provider.v
        /\ Len(Body.models) > 0

\* C15 amended: list_models for claude or openai returns, without a network
\* call, a success envelope with that provider's non-empty list of the
\* registry; for ollama, after its one network call, a success envelope with
\* the names of the server's models array in its order, which is empty when
\* the server has no model.
C15_ListsWhatBackendReports ==
    ListAnswered =>
        /\ outcome.kind = "envelope"
        /\ IF Args.provider.v = ollama
           THEN /\ Len(calls) = 1
                /\ ~Has(Envelope, "isError")
                /\ Body.provider = ollama
                /\ Body.models = Names(settled[1].data.models)
           ELSE /\ calls = <<>>
                /\ ~Has(Envelope, "isError")
                /\ Body.provider = Args.provider.v
                /\ Body.models = AVAILABLE_MODELS[Args.provider.v]
                /\ Len(Body.models) > 0

\* the ollama server listed a model the registry does not know, then a known one
C15_Witness ==
    /\ ListAnswered
    /\ Args.provider.v = ollama
    /\ ~Has(Envelope, "isError")
    /\ Body.models = <<"qwen2", "llama3.2">>

\* the request names a provider: the property is present and not the empty string
NamesProvider == Has(Args, "provider") /\ Args.provider # Str(<<>>)

\* a chat request with a prompt was answered after its adapter returned
ChatAnswered ==
    /\ ChatWithPrompt
    /\ pc = "done"
    /\ result # <<>>

\* C16 as stated: the envelope of every chat request an adapter served,
\* success or failure, carries the task type, auto_selected and a timestamp,
\* and auto_selected is true exactly when the request names no provider.
C16_EveryResultCarriesTaskType ==
    ChatAnswered =>
        /\ outcome.kind = "envelope"
        /\ Has(Body, "timestamp")
        /\ Has(Body, "model_info")
        /\ Body.model_info.task_type = taskType
        /\ Body.model_info.auto_selected = ~NamesProvider

\* C16 amended: every envelope chat returns carries a timestamp; a success
\* envelope carries the prompt's task type and auto_selected, which is true
\* exactly when the request names no provider; an error envelope carries the
\* error, the tool's name and the timestamp and nothing else.
C16_SuccessCarriesTaskType ==
    (pc = "done" /\ request.name = "chat") =>
        /\ outcome.kind = "envelope"
        /\ Body.timestamp = Timestamp
        /\ IF Has(Envelope, "isError")
           THEN DOMAIN Body = {"error", "tool", "timestamp"}
           ELSE /\ ChatAnswered
                /\ Body.model_info.task_type = taskType
                /\ taskType \in {"coding", "creative", "analytical", "general"}
                /\ Body.model_info.auto_selected = ~NamesProvider

\* a coding prompt sent to claude by override was served: not auto-selected
C16_Witness ==
    /\ ChatAnswered
    /\ ~Has(Envelope, "isError")
    /\ Has(Args, "provider")
    /\ Args.provider = Str(claude)
    /\ Body.model_info.task_type = "coding"
    /\ Body.model_info.auto_selected = FALSE

\* the max-token field of a generate call, under its provider's name for it
MaxTokensSent(call) ==
    IF call.provider = ollama THEN call.num_predict ELSE call.max_tokens

\* C17: the network call of every adapter carries the request's temperature
\* when the request has one, zero included, and the default otherwise, and
\* the request's maxTokens when it has one and the default otherwise.
C17_CallerValuesAreSent ==
    (pc # "idle" /\ request.name = "chat" /\ calls # <<>>) =>
        /\ calls[1].temperature =
              (IF Has(Args, "temperature") THEN Args.temperature ELSE DefaultTemperature)
        /\ MaxTokensSent(calls[1]) =
              (IF Has(Args, "maxTokens") THEN Args.maxTokens ELSE DefaultMaxTokens)

\* the call of a chat request was answered with a text and without usage figures
AnsweredWithoutUsage ==
    /\ pc = "done"
    /\ request.name = "chat"
    /\ calls # <<>>
    /\ settled[1].kind = "data"
    /\ LET data == settled[1].data IN
       IF calls[1].provider = ollama
       THEN DOMAIN data = {"response"}
       ELSE IF calls[1].provider = claude
       THEN /\ ~Has(data, "usage")
            /\ data.content # <<>>
            /\ Has(data.content[1], "text")
       ELSE /\ ~Has(data, "usage")
            /\ data.choices # <<>>
            /\ Has(data.choices[1].message, "content")

\* C18: for each adapter, an answer that carries the text but no usage
\* figures gives a successful result whose prompt, completion and total
\* tokens are 0, returned in a success envelope.
C18_NoUsageMeansZero ==
    AnsweredWithoutUsage =>
        /\ result.success
        /\ result.usage = [prompt_tokens |-> 0, completion_tokens |-> 0,
                           total_tokens |-> 0]
        /\ outcome.kind = "envelope"
        /\ ~Has(Envelope, "isError")
        /\ Body.usage = result.usage

\* s with the case of each of its letters inverted
SwapCase(s) == [i \in 1..Len(s) |-> MapChar(s[i], LowerTable @@ UpperTable)]

\* s in lower case, in upper case and with the case of every letter inverted
CaseVariants(s) == {toLowerCase(s), toUpperCase(s), SwapCase(s)}

\* C19: in every state a chat request can be handled in, whatever requests
\* were handled before it and whatever its other arguments, the task type the
\* handler computed for its prompt is the task type of the same text in lower
\* case, in upper case and with the case of every letter inverted.
C19_CaseDoesNotChangeTaskType ==
    ChatWithPrompt =>
        \A q \in CaseVariants(Args.prompt.v) : determineTaskType(q) = taskType

\* a prompt whose only keyword is typed with a capital was classified by it
C19_Witness ==
    /\ ChatWithPrompt
    /\ Args.prompt.v = <<"C","o","m","p","a","r","e">>
    /\ ~includes(Args.prompt.v, kw_compare)
    /\ taskType = "analytical"

\* what the handler returns for the request of invocation h, and for the way
\* its call settled if it made one, when no other request is in flight
Alone(h) ==
    LET cl == initializeClients(env)
        step == SwitchBegin(cl, h.request)
        tt == IF Classifies(h.request)
              THEN determineTaskType(h.request.arguments.prompt.v) ELSE "none"
    IN  Leaves(Catch(h.request.name,
            IF step.kind = "await"
            THEN SwitchEnd(h.request, tt, Settled(step.call, h.reply))
            ELSE IF step.kind = "return" THEN SwitchEnd(h.request, tt, step.value)
            ELSE step))

\* invocations i and j handled the same request and their calls, if any,
\* settled the same way
SameInput(i, j) ==
    /\ handlers[i].request = handlers[j].request
    /\ Has(handlers[i], "reply") = Has(handlers[j], "reply")
    /\ Has(handlers[i], "reply") => handlers[i].reply = handlers[j].reply

\* C20: however the steps of overlapping requests interleave and in whatever
\* order their calls settle, the clients stay those built at startup, the
\* outcome of each request is the one the handler returns for that request
\* and that reply when nothing else is in flight, and two requests with the
\* same arguments and the same reply have the same outcome whatever was in
\* flight beside each.
C20_RequestsAreIndependent ==
    /\ clients = initializeClients(env)
    /\ \A i \in DOMAIN handlers :
          handlers[i].pc = "done" => handlers[i].outcome = Alone(handlers[i])
    /\ \A i, j \in DOMAIN handlers :
          (handlers[i].pc = "done" /\ handlers[j].pc = "done" /\ SameInput(i, j))
              => handlers[i].outcome = handlers[j].outcome

\* a coding chat was answered while a creative chat was awaiting its call
C20_Witness ==
    \E i, j \in DOMAIN handlers :
        /\ handlers[i].pc = "done"
        /\ handlers[i].beside = 1
        /\ handlers[i].taskType = "coding"
        /\ ~Has(handlers[i].outcome.envelope, "isError")
        /\ handlers[j].pc = "awaiting"
        /\ handlers[j].taskType = "creative"
        /\ handlers[j].call.provider = claude

\* callModel or getAvailableModels has returned a result for the request
ResultReturned == pc = "done" /\ result # <<>>

\* C21 as stated: every result callModel or getAvailableModels returns,
\* failures and the unknown-provider branch included, has a provider field
\* whose value is ollama, claude or openai.
C21_ResultNamesKnownProvider ==
    ResultReturned =>
        /\ Has(result, "provider")
        /\ result.provider \in KnownProviders

\* C21 amended: a result returned for a provider that is, in lower case,
\* ollama, claude or openai carries that provider, success or failure; the
\* result of the unknown-provider branch is a failure that carries the
\* 'Unknown provider' error and no provider field.
C21_ResultNamesServedProvider ==
    ResultReturned =>
        LET asked == IF request.name = "chat" THEN SelectedProvider(Args, taskType)
                     ELSE Args.provider
        IN  IF toLowerCase(asked.v) \in KnownProviders
            THEN /\ Has(result, "provider")
                 /\ result.provider = toLowerCase(asked.v)
            ELSE /\ ~Has(result, "provider")
                 /\ ~result.success
                 /\ result.error = [msg |-> "Unknown provider", provider |-> asked.v]

\* the listing of ollama failed, and the failure names ollama
C21_Witness ==
    /\ ResultReturned
    /\ request.name = "list_models"
    /\ ~result.success
    /\ Has(result, "provider")
    /\ result.provider = ollama

\* the hello-world server has answered a hello tool call that has arguments
HelloAnswered ==
    /\ hello.pc = "done"
    /\ hello.request.name = "hello"
    /\ Has(hello.request, "arguments")

HelloArgs == hello.request.arguments
HelloBody == hello.outcome.envelope.content

\* the style of the call: its style argument, simple when it has none
HelloStyle == IF Has(HelloArgs, "style") THEN HelloArgs.style ELSE "simple"

\* the call names a model: the argument is present and not the empty string
NamesModel == Has(HelloArgs, "model") /\ HelloArgs.model # ""

\* the routing rule of each style as the claim states it
RoutedModel(style) ==
    CASE style = "simple" -> "claude"
      [] style = "formal" -> "openai"
      [] style = "creative" -> "claude"
      [] style = "technical" -> "llama"

\* C22: the hello tool, for every name and each of the four styles, answers
\* with model_used equal to the model argument and routing_applied false when
\* the call names a model, and with model_used equal to the style's rule
\* (simple and creative claude, formal openai, technical llama) and
\* routing_applied true when it names none.
C22_ModelArgumentOrStyleRule ==
    (HelloAnswered /\ HelloStyle \in {"simple", "formal", "creative", "technical"}) =>
        /\ hello.outcome.kind = "envelope"
        /\ HelloBody.style = HelloStyle
        /\ IF NamesModel
           THEN /\ HelloBody.model_used = HelloArgs.model
                /\ HelloBody.routing_applied = FALSE
           ELSE /\ HelloBody.model_used = RoutedModel(HelloStyle)
                /\ HelloBody.routing_applied = TRUE

\* a formal greeting was asked of llama, against the rule of the style
C22_Witness ==
    /\ HelloAnswered
    /\ HelloStyle = "formal"
    /\ NamesModel
    /\ HelloBody.model_used = "llama"
    /\ HelloBody.routing_applied = FALSE

\* C23: while ENABLE_MODEL_ROUTING is 'false', a hello call that names no
\* model is answered with the configured default model (DEFAULT_MODEL, or
\* claude), not the rule of its style.
C23_RoutingCanBeDisabled ==
    (HelloAnswered /\ ~NamesModel /\ ~hello.config.enableModelRouting) =>
        /\ hello.outcome.kind = "envelope"
        /\ HelloBody.model_used = hello.config.defaultModel

\* a chat request whose prompt, provider and model, where present, are strings
ChatOfStrings ==
    /\ pc # "idle"
    /\ request.name = "chat"
    /\ Has(request, "arguments")
    /\ Has(Args, "prompt") => IsString(Args.prompt)
    /\ Has(Args, "provider") => IsString(Args.provider)

\* the prompt check fails: the prompt is missing or empty
PromptFails == ~Has(Args, "prompt") \/ Args.prompt = Str(<<>>)

\* the provider check fails: a provider is named and is not a known provider
ProviderFails == NamesProvider /\ Args.provider.v \notin KnownProviders

\* the model check fails: the model is not in the list of the provider that
\* is named, or that routing chose
ModelFails ==
    /\ ~PromptFails
    /\ ~ProviderFails
    /\ Has(Args, "model")
    /\ ~ListIncludes(AVAILABLE_MODELS[IF NamesProvider THEN Args.provider.v
                                      ELSE RoutedProvider(taskType)], Args.model)

\* C24: chat checks the prompt, then the provider, then the model, then calls
\* the adapter: a request that fails a check ends at once in an error
\* envelope, with no adapter entered and no network call, and its error is
\* that of the first check it fails, whatever else is invalid.
C24_ChecksInOrder ==
    (ChatOfStrings /\ (PromptFails \/ ProviderFails \/ ModelFails)) =>
        /\ pc = "done"
        /\ invoked = <<>>
        /\ calls = <<>>
        /\ ErrorEnvelope
        /\ Body.error.msg = (IF PromptFails THEN "Prompt is required"
                             ELSE IF ProviderFails THEN "Invalid provider"
                             ELSE "Model not available for provider")

\* a chat request with a prompt names no provider and names a model of a
\* provider other than the one routing chooses for its task type
ModelOfAnotherProvider ==
    /\ ChatWithPrompt
    /\ ~NamesProvider
    /\ Has(Args, "model")
    /\ getProviderForModel(Args.model) \in KnownProviders \ {RoutedProvider(taskType)}

\* C25: a model named without a provider is checked against the list of the
\* provider routing chooses for the prompt's task type: when the model belongs
\* to another provider the request ends at once in the error envelope saying
\* the model is not available for the routed provider, and no adapter is
\* entered, the adapter of the model's own provider included.
C25_ModelCheckedAgainstRoutedProvider ==
    ModelOfAnotherProvider =>
        /\ pc = "done"
        /\ invoked = <<>>
        /\ calls = <<>>
        /\ ErrorEnvelope
        /\ Body.error = [msg |-> "Model not available for provider",
                         model |-> Args.model, provider |-> RoutedProvider(taskType)]

\* gpt-4 was named with a coding prompt, which routing sends to ollama
C25_Witness ==
    /\ ModelOfAnotherProvider
    /\ ~Has(Args, "provider")
    /\ taskType = "coding"
    /\ Args.model = "gpt-4"
    /\ ErrorEnvelope
    /\ Body.error.provider = ollama

\* C26: every model name a successful list_models returns for ollama, claude
\* or openai is accepted by the validation chat applies to a model named
\* together with that provider.
C26_ListedModelsAreAccepted ==
    (ListAnswered /\ ~Has(Envelope, "isError")) =>
        \A i \in 1..Len(Body.models) :
            validateModelRequest(Args.provider, [model |-> Body.models[i]])
                = Returns([valid |-> TRUE])

\* the chat handler has handed validateModelRequest a provider that is a string
ValidatedStrings ==
    /\ pc # "idle"
    /\ Classifies(request)
    /\ IsString(SelectedProvider(Args, taskType))

\* C27: validateModelRequest returns a verdict for every provider string and
\* model without throwing; the verdict is valid exactly when the provider is
\* one of ollama, claude, openai as written and the model is absent or in that
\* provider's list, and an invalid verdict carries an error.
C27_ValidationIsTotalAndExact ==
    ValidatedStrings =>
        LET provider == SelectedProvider(Args, taskType)
            verdict == validateModelRequest(provider, Args)
        IN  /\ ~verdict.throws
            /\ verdict.value.valid <=>
                  /\ provider.v \in KnownProviders
                  /\ Has(Args, "model") =>
                        ListIncludes(AVAILABLE_MODELS[provider.v], Args.model)
            /\ ~verdict.value.valid => Has(verdict.value, "error")

\* the promises of the MCPClient's sendRequest calls, in the order of the calls
Promises == mcpClient.promises

\* a settled promise was settled by the response to its own request: resolved
\* with its result, or rejected with its error
SettledByOwnResponse(p) ==
    \/ p.state = "resolved" /\ p.value = [result |-> p.id]
    \/ p.state = "rejected" /\ Has(p.error, "of") /\ p.error.of = p.id

\* a promise was rejected by the timer of its own sendRequest
TimedOut(p) == p.state = "rejected" /\ p.error = [msg |-> "Request timeout"]

\* no two sendRequest calls of the client were given the same id
IdsNeverReused ==
    \A i, j \in 1..Len(Promises) : Promises[i].id = Promises[j].id => i = j

\* C28 as stated: whatever the order and the chunking of the responses, a
\* promise of sendRequest that is settled was settled by the response with its
\* own id, and by nothing else; and no id is used twice.
C28_SettledOnlyByOwnResponse ==
    /\ IdsNeverReused
    /\ \A i \in 1..Len(Promises) :
          Promises[i].state # "pending" => SettledByOwnResponse(Promises[i])

\* C28 amended: whatever the order and the chunking of the responses, a promise
\* of sendRequest that is settled was settled either by the response with its
\* own id (resolved with its result, rejected with its error) or by its own
\* 30-second timer (rejected with 'Request timeout'), never by the response to
\* another request; and no id is used twice.
C28_SettledByOwnResponseOrTimeout ==
    /\ IdsNeverReused
    /\ \A i \in 1..Len(Promises) :
          Promises[i].state # "pending" =>
              SettledByOwnResponse(Promises[i]) \/ TimedOut(Promises[i])

\* with two requests outstanding the second was answered first: its promise has
\* resolved with its own result, while the first listener has read that line,
\* passed it over, and holds the first half of its own response
C28_Witness ==
    /\ Len(Promises) = 2
    /\ Promises[2].state = "resolved"
    /\ Promises[2].value = [result |-> 2]
    /\ Promises[1].state = "pending"
    /\ Promises[1].responseData = <<[id |-> 1, half |-> 1, kind |-> "error"]>>

\* the promises of the HelloWorldClient's sendRequest calls, in the order of the calls
HelloPromises == helloClient.promises

\* C29: a promise of HelloWorldClient.sendRequest that has resolved has
\* resolved with the response to its own request, also when another request
\* is outstanding on the same server process.
C29_ResolvesWithOwnResponse ==
    \A i \in 1..Len(HelloPromises) :
        HelloPromises[i].state = "resolved" => HelloPromises[i].value.id = HelloPromises[i].id

\* the MCPClient has written a request to the stdin of a process that is not
\* running
WrittenToDeadProcess ==
    \E i \in 1..Len(mcpClient.stdin) : mcpClient.stdin[i].to # "alive"

\* C30: isConnected is true only while the spawned server process is alive,
\* so that after a failed spawn and after disconnect(), within the start-up
\* delay or later, sendRequest fails with 'Client not connected to server'
\* and writes nothing to the process.
C30_ConnectedOnlyWhileAlive ==
    /\ mcpClient.isConnected => mcpClient.serverProcess = "alive"
    /\ ~WrittenToDeadProcess

====
